---------------------------- MODULE Spec2Model ----------------------------
(***************************************************************************)
(* Device-bound challenge-response authentication of dothtml-backend:      *)
(* the three handlers of src/src/auth.rs (register, login, authenticate)   *)
(* over the accounts and public_keys tables of src/src/models.rs.          *)
(*                                                                         *)
(* Every handler is an async function whose database calls are await       *)
(* points; actix runs handlers of different requests concurrently over one *)
(* shared pool, so each database call is one atomic step and the steps of  *)
(* different requests interleave freely.  A request is a slot of           *)
(* Requests, numbered in order of arrival.                                 *)
(*                                                                         *)
(* Spec is the three handlers together with the passing of time;           *)
(* SpecConfirm is register together with the requests that answer its      *)
(* confirmation, for which src/src/routes.rs has no route.                 *)
(***************************************************************************)
EXTENDS Integers, FiniteSets, Sequences, TLC

\* Number of requests the server receives in one run.
MaxReq == 3

Requests == 1..MaxReq

\* Number of requests the server handles at the same time.
MaxInFlight == 2

\* Number of database calls that fail in one run.
MaxDbErrors == 1

\* Identifiers and device public keys a client may send.
Identifiers == {"alice", "bob"}
Keys == {"pk1", "pk2"}

NoKey == "none"
\* The nonce of no issued challenge (a signature over garbage).
NoNonce == 0

\* A signed challenge as the client sends it: the device key whose private
\* half produced it and the nonce it was computed over.
Signatures == [key : Keys, nonce : {NoNonce} \cup Requests]
NoSignature == [key |-> NoKey, nonce |-> NoNonce]

VARIABLES
    accounts,      \* table accounts: the set of provisioned identifiers
    public_keys,   \* table public_keys: rows [id, identifier, public_key]
    challenges,    \* challenge store: rows [identifier, nonce, consumed, expired]
    req            \* the requests: input, position in the handler, response

vars == <<accounts, public_keys, challenges, req>>

IdleRequest ==
    [op |-> "none", identifier |-> "none", public_key |-> NoKey,
     signed_challenge |-> NoSignature, pc |-> "idle", resp |-> "none",
     challenge |-> NoNonce, after |-> {},
     requestId |-> 0, approverDeviceKey |-> NoKey, proof |-> NoSignature,
     decision |-> "none",
     notified |-> {},      \* the device keys the handler sent a message to
     timedOut |-> FALSE]   \* the confirmation timeout of a register has passed

\* The requests that have been answered (or have aborted).
Done == {q \in Requests : req[q].pc = "done"}

\* The requests a handler is working on.
InFlight == {q \in Requests : req[q].pc \notin {"idle", "done"}}

\* Requests arrive in the order of their numbers.
CanArrive(r) ==
    /\ req[r].pc = "idle"
    /\ \A q \in Requests : q < r => req[q].pc # "idle"
    /\ Cardinality(InFlight) < MaxInFlight

\* The database calls that have failed: each ended its request with a 500
\* or with a panic.
DbErrors == {q \in Requests : req[q].resp \in {"InternalServerError", "panic"}}

\* A database call may return Err (connection lost, pool timeout, ...).
DbMayFail == Cardinality(DbErrors) < MaxDbErrors

----------------------------------------------------------------------------
\* Database operations (src/src/models.rs); each is the Ok value of the call.

\* Mutant of contains_identifier: the query answers true for every identifier.
contains_identifier_always(identifier) == TRUE

\* SELECT EXISTS (SELECT 1 FROM accounts WHERE identifier = $1)
contains_identifier(identifier) == identifier \in accounts

\* Mutant of is_identifier_registered: the query looks for the identifier in
\* the wrong column and never finds a row.
is_identifier_registered_never(identifier) ==
    \E row \in public_keys : row.public_key = identifier

\* SELECT EXISTS (SELECT 1 FROM public_keys WHERE identifier = $1)
is_identifier_registered(identifier) ==
    \E row \in public_keys : row.identifier = identifier

\* Mutant of link_public_key: the insert binds the parameters in the wrong
\* order and stores the identifier as the key.
link_public_key_swapped(id, identifier, public_key) ==
    public_keys \cup
        {[id |-> id, identifier |-> identifier, public_key |-> identifier]}

\* Mutant of link_public_key: the statement is an INSERT OR REPLACE keyed on
\* the identifier, which drops the rows the identifier already has.
link_public_key_replacing(id, identifier, public_key) ==
    {row \in public_keys : row.identifier # identifier}
    \cup {[id |-> id, identifier |-> identifier, public_key |-> public_key]}

\* INSERT INTO public_keys (identifier, public_key, device_name): the table
\* has no constraint but the generated primary key id, so the insert always
\* adds a row.  The row id is the number of the inserting request.
link_public_key(id, identifier, public_key) ==
    public_keys \cup
        {[id |-> id, identifier |-> identifier, public_key |-> public_key]}

\* Database::get_public_key is called by login and authenticate but is not
\* part of the sources: Ok(key) when the identifier has a bound device key,
\* Err(RowNotFound) otherwise.
get_public_key(identifier) ==
    IF \E row \in public_keys : row.identifier = identifier
    THEN "Ok" ELSE "RowNotFound"

\* Database::store_challenge_for_user is called by login but is not part of
\* the sources: the Challenge Store's issue, which invalidates (destroys) any
\* prior challenge of the identifier and records the new one, unconsumed and
\* with its expiresAt still ahead (expired is "now > expiresAt").
store_challenge_for_user(identifier, challenge) ==
    {c \in challenges : c.identifier # identifier}
    \cup {[identifier |-> identifier, nonce |-> challenge,
           consumed |-> FALSE, expired |-> FALSE]}

\* The Signature Verifier: signature is a valid signature by the private
\* half of publicKey over exactly challengeNonce.
Verify(publicKey, challengeNonce, signature) ==
    signature.key = publicKey /\ signature.nonce = challengeNonce

\* The device keys bound to an identifier.
BoundKeys(identifier) ==
    {row.public_key : row \in {x \in public_keys : x.identifier = identifier}}

\* The nonces the server has handed out in login responses.
IssuedNonces ==
    {req[q].challenge : q \in {x \in Requests : req[x].op = "login" /\ req[x].resp = "Ok"}}

Respond(r, status) == [req EXCEPT ![r].pc = "done", ![r].resp = status]

----------------------------------------------------------------------------
\* register (src/src/auth.rs)

RegisterStart(r, identifier, public_key) ==
    /\ CanArrive(r)
    /\ req' = [req EXCEPT ![r] = [IdleRequest EXCEPT
                  !.op = "register", !.identifier = identifier,
                  !.public_key = public_key, !.pc = "contains_identifier",
                  !.after = Done]]
    /\ UNCHANGED <<accounts, public_keys, challenges>>

\* match db.contains_identifier(&identifier).await
RegisterContainsIdentifier(r) ==
    /\ req[r].op = "register" /\ req[r].pc = "contains_identifier"
    /\ \/ /\ contains_identifier(req[r].identifier)
          /\ req' = [req EXCEPT ![r].pc = "is_identifier_registered"]
       \/ /\ ~contains_identifier(req[r].identifier)
          /\ req' = Respond(r, "NotFound")
       \/ /\ DbMayFail
          /\ req' = Respond(r, "InternalServerError")
    /\ UNCHANGED <<accounts, public_keys, challenges>>

\* match db.is_identifier_registered(&identifier).await
RegisterIsRegistered(r) ==
    /\ req[r].op = "register" /\ req[r].pc = "is_identifier_registered"
    /\ \/ /\ is_identifier_registered(req[r].identifier)
          /\ req' = Respond(r, "Conflict")
       \/ /\ ~is_identifier_registered(req[r].identifier)
          /\ req' = [req EXCEPT ![r].pc = "link_public_key"]
       \/ /\ DbMayFail
          /\ req' = Respond(r, "InternalServerError")
    /\ UNCHANGED <<accounts, public_keys, challenges>>

\* db.link_public_key(&identifier, &public_key).await.unwrap()
RegisterLink(r) ==
    /\ req[r].op = "register" /\ req[r].pc = "link_public_key"
    /\ \/ /\ public_keys' = link_public_key(r, req[r].identifier, req[r].public_key)
          /\ req' = Respond(r, "Ok")
       \/ \* the insert fails: unwrap panics and the request gets no response
          /\ DbMayFail
          /\ req' = Respond(r, "panic")
          /\ UNCHANGED public_keys
    /\ UNCHANGED <<accounts, challenges>>

----------------------------------------------------------------------------
\* login (src/src/auth.rs)

LoginStart(r, identifier) ==
    /\ CanArrive(r)
    /\ req' = [req EXCEPT ![r] = [IdleRequest EXCEPT
                  !.op = "login", !.identifier = identifier,
                  !.pc = "get_public_key", !.after = Done]]
    /\ UNCHANGED <<accounts, public_keys, challenges>>

\* Mutant of LoginGetPublicKey: the challenge is drawn and stored before the
\* key lookup, whatever the lookup then answers.
LoginGetPublicKey_StoreFirst(r) ==
    /\ req[r].op = "login" /\ req[r].pc = "get_public_key"
    /\ challenges' = store_challenge_for_user(req[r].identifier, r)
    /\ \/ /\ get_public_key(req[r].identifier) = "Ok"
          /\ req' = [req EXCEPT ![r].pc = "store_challenge_for_user",
                                ![r].challenge = r]
       \/ /\ get_public_key(req[r].identifier) = "RowNotFound"
          /\ req' = Respond(r, "NotFound")
       \/ /\ DbMayFail
          /\ req' = Respond(r, "InternalServerError")
    /\ UNCHANGED <<accounts, public_keys>>

\* match db.get_public_key(&identifier).await; on Ok the 32 random bytes of
\* the challenge are drawn: a nonce no other login draws (the number of the
\* request).
LoginGetPublicKey(r) ==
    /\ req[r].op = "login" /\ req[r].pc = "get_public_key"
    /\ \/ /\ get_public_key(req[r].identifier) = "Ok"
          /\ req' = [req EXCEPT ![r].pc = "store_challenge_for_user",
                                ![r].challenge = r]
       \/ /\ get_public_key(req[r].identifier) = "RowNotFound"
          /\ req' = Respond(r, "NotFound")
       \/ /\ DbMayFail
          /\ req' = Respond(r, "InternalServerError")
    /\ UNCHANGED <<accounts, public_keys, challenges>>

\* db.store_challenge_for_user(&identifier, &challenge).await.unwrap()
LoginStoreChallenge(r) ==
    /\ req[r].op = "login" /\ req[r].pc = "store_challenge_for_user"
    /\ \/ /\ challenges' = store_challenge_for_user(req[r].identifier, req[r].challenge)
          /\ req' = Respond(r, "Ok")
       \/ /\ DbMayFail
          /\ req' = [req EXCEPT ![r].pc = "done", ![r].resp = "panic",
                                ![r].challenge = NoNonce]
          /\ UNCHANGED challenges
    /\ UNCHANGED <<accounts, public_keys>>

----------------------------------------------------------------------------
\* authenticate (src/src/auth.rs)

\* The client signs a nonce it has received from a login, or garbage.
AuthenticateStart(r, identifier, signed_challenge) ==
    /\ CanArrive(r)
    /\ signed_challenge.nonce \in {NoNonce} \cup IssuedNonces
    /\ req' = [req EXCEPT ![r] = [IdleRequest EXCEPT
                  !.op = "authenticate", !.identifier = identifier,
                  !.signed_challenge = signed_challenge,
                  !.pc = "get_public_key", !.after = Done]]
    /\ UNCHANGED <<accounts, public_keys, challenges>>

\* An authenticate that checks the signed challenge against one key only, the
\* identifier's oldest row (the single key a fetch of one row would return).
AuthenticateGetPublicKey_FirstKeyOnly(r) ==
    /\ req[r].op = "authenticate" /\ req[r].pc = "get_public_key"
    /\ \/ /\ get_public_key(req[r].identifier) = "Ok"
          /\ LET rows == {x \in public_keys : x.identifier = req[r].identifier}
                 first == CHOOSE row \in rows : \A x \in rows : row.id <= x.id
             IN  req' = Respond(r, IF req[r].signed_challenge.key = first.public_key
                                     THEN "Ok" ELSE "Unauthorized")
       \/ /\ get_public_key(req[r].identifier) = "RowNotFound"
          /\ req' = Respond(r, "NotFound")
       \/ /\ DbMayFail
          /\ req' = Respond(r, "InternalServerError")
    /\ UNCHANGED <<accounts, public_keys, challenges>>

\* match db.get_public_key(&identifier).await: Ok answers
\* "[FAKE] Authentication successful." without reading the challenge store
\* or the signed challenge.
AuthenticateGetPublicKey(r) ==
    /\ req[r].op = "authenticate" /\ req[r].pc = "get_public_key"
    /\ \/ /\ get_public_key(req[r].identifier) = "Ok"
          /\ req' = Respond(r, "Ok")
       \/ /\ get_public_key(req[r].identifier) = "RowNotFound"
          /\ req' = Respond(r, "NotFound")
       \/ /\ DbMayFail
          /\ req' = Respond(r, "InternalServerError")
    /\ UNCHANGED <<accounts, public_keys, challenges>>

----------------------------------------------------------------------------
\* confirm (no handler in src/src/auth.rs, no route in src/src/routes.rs)

\* POST confirm/{requestId} {approverDeviceKey, proof, decision}: a bound
\* device answers the confirmation of a register.  requestId is the number of
\* the register the confirmation is for; proof is a signature over it.  The
\* routes of config match no such path, so the request is answered by the
\* default service, 404, at once: no handler runs and no table is touched.
Confirm(r, requestId, approverDeviceKey, proof, decision) ==
    /\ CanArrive(r)
    /\ req[requestId].op = "register"
    /\ req' = [req EXCEPT ![r] = [IdleRequest EXCEPT
                  !.op = "confirm", !.requestId = requestId,
                  !.approverDeviceKey = approverDeviceKey,
                  !.proof = proof, !.decision = decision,
                  !.pc = "done", !.resp = "NotFound", !.after = Done]]
    /\ UNCHANGED <<accounts, public_keys, challenges>>

\* Time passes: the clock goes past requestedAt + timeout of the confirmation
\* of register q, a register answered for an identifier that had a bound
\* device.  No handler of the sources reads the clock.
ConfirmationTimesOut(q) ==
    /\ req[q].op = "register" /\ req[q].pc = "done"
    /\ req[q].resp = "Conflict"
    /\ ~req[q].timedOut
    /\ req' = [req EXCEPT ![q].timedOut = TRUE]
    /\ UNCHANGED <<accounts, public_keys, challenges>>

----------------------------------------------------------------------------
\* Time passes: the clock goes past the expiresAt of the challenge stored for
\* an identifier.  No handler of the sources reads the clock.
ChallengeExpires(identifier) ==
    /\ \E c \in challenges : c.identifier = identifier /\ ~c.expired
    /\ challenges' =
          {IF c.identifier = identifier THEN [c EXCEPT !.expired = TRUE] ELSE c :
              c \in challenges}
    /\ UNCHANGED <<accounts, public_keys, req>>

----------------------------------------------------------------------------

\* The row of a device key bound in an earlier run of the server (a register
\* that answered Ok): row id 0, older than every request of this run.
EarlierRow(identifier, public_key) ==
    [id |-> 0, identifier |-> identifier, public_key |-> public_key]

\* Accounts are provisioned out of band before the server runs.  The tables
\* are durable: an account may have had devices bound in an earlier run (one
\* by a register, a second one by a register racing with it).  The challenge
\* store starts empty.
Init ==
    /\ accounts \in SUBSET Identifiers
    /\ public_keys \in SUBSET {EarlierRow(identifier, public_key) :
                                  identifier \in accounts, public_key \in Keys}
    /\ challenges = {}
    /\ req = [r \in Requests |-> IdleRequest]

Next ==
    \/ \E r \in Requests, identifier \in Identifiers, public_key \in Keys :
          RegisterStart(r, identifier, public_key)
    \/ \E r \in Requests : RegisterContainsIdentifier(r)
    \/ \E r \in Requests : RegisterIsRegistered(r)
    \/ \E r \in Requests : RegisterLink(r)
    \/ \E r \in Requests, identifier \in Identifiers : LoginStart(r, identifier)
    \/ \E r \in Requests : LoginGetPublicKey(r)
    \/ \E r \in Requests : LoginStoreChallenge(r)
    \/ \E r \in Requests, identifier \in Identifiers, signed_challenge \in Signatures :
          AuthenticateStart(r, identifier, signed_challenge)
    \/ \E r \in Requests : AuthenticateGetPublicKey(r)
    \/ \E identifier \in Identifiers : ChallengeExpires(identifier)

Spec == Init /\ [][Next]_vars

\* Device binding alone: the registers and the confirmations of registers.
NextConfirm ==
    \/ \E r \in Requests, identifier \in Identifiers, public_key \in Keys :
          RegisterStart(r, identifier, public_key)
    \/ \E r \in Requests : RegisterContainsIdentifier(r)
    \/ \E r \in Requests : RegisterIsRegistered(r)
    \/ \E r \in Requests : RegisterLink(r)
    \/ \E r \in Requests, requestId \in Requests, approverDeviceKey \in Keys,
          decision \in {"approve", "reject"} :
          \E proof \in [key : Keys, nonce : {NoNonce, requestId}] :
              Confirm(r, requestId, approverDeviceKey, proof, decision)
    \/ \E q \in Requests : ConfirmationTimesOut(q)

SpecConfirm == Init /\ [][NextConfirm]_vars

----------------------------------------------------------------------------
\* Vocabulary of the properties.

\* Handler op answers request r in this step.
Completes(r, op) ==
    req[r].op = op /\ req[r].pc # "done" /\ req'[r].pc = "done"

\* Request r of handler op has been answered.
Answered(r, op) == req[r].op = op /\ req[r].pc = "done"

\* The active (unconsumed, unexpired) challenges of an identifier.
ActiveChallenges(identifier) ==
    {c \in challenges : c.identifier = identifier /\ ~c.consumed /\ ~c.expired}

\* The rows of an identifier that were in public_keys when request r arrived:
\* those of an earlier run and those inserted by requests answered before r
\* arrived (a register inserts its row in the step that answers it).
RowsAtArrival(r) ==
    {row \in public_keys :
        /\ row.identifier = req[r].identifier
        /\ (row.id = 0 \/ row.id \in req[r].after)}

\* Nonce n is the challenge some login has issued for the identifier.
IssuedFor(identifier, n) ==
    \E q \in Requests :
        /\ Answered(q, "login") /\ req[q].resp = "Ok"
        /\ req[q].identifier = identifier /\ req[q].challenge = n

\* Requests r1 and r2 were being handled at the same time.
Concurrent(r1, r2) ==
    /\ r1 # r2
    /\ req[r1].pc # "idle" /\ req[r2].pc # "idle"
    /\ r1 \notin req[r2].after /\ r2 \notin req[r1].after

----------------------------------------------------------------------------
\* C1: an authenticate answers with success only if, in that same attempt,
\* an active challenge of the identifier is consumed and the submitted
\* signature verifies over that challenge's nonce against one of the
\* identifier's bound device keys.
C1_SessionOnlyWithProofOfPossession ==
    [][\A r \in Requests :
          (Completes(r, "authenticate") /\ req'[r].resp = "Ok") =>
              \E c \in ActiveChallenges(req[r].identifier) :
                  /\ \E pk \in BoundKeys(req[r].identifier) :
                        Verify(pk, c.nonce, req[r].signed_challenge)
                  /\ c \notin ActiveChallenges(req[r].identifier)']_vars

\* C2: once an authenticate has succeeded on a challenge, every authenticate
\* that arrives after it was answered and presents a signature over the same
\* challenge is rejected, as long as no new login for the identifier came in
\* between.
C2_ConsumedChallengeNeverReplayed ==
    \A r1, r2 \in Requests :
        ( /\ Answered(r1, "authenticate") /\ Answered(r2, "authenticate")
          /\ r1 \in req[r2].after
          /\ req[r1].identifier = req[r2].identifier
          /\ req[r1].signed_challenge.nonce = req[r2].signed_challenge.nonce
          /\ IssuedFor(req[r1].identifier, req[r1].signed_challenge.nonce)
          /\ req[r1].resp = "Ok"
          /\ ~\E l \in Requests :
                /\ req[l].op = "login"
                /\ req[l].identifier = req[r1].identifier
                /\ l \notin req[r1].after )
        => req[r2].resp # "Ok"

\* C3: of two authenticate calls handled at the same time for the same
\* identifier against the same issued challenge, at most one succeeds.
C3_ConcurrentAuthenticateAtMostOneSucceeds ==
    \A r1, r2 \in Requests :
        ( /\ Answered(r1, "authenticate") /\ Answered(r2, "authenticate")
          /\ Concurrent(r1, r2)
          /\ req[r1].identifier = req[r2].identifier
          /\ req[r1].signed_challenge.nonce = req[r2].signed_challenge.nonce
          /\ IssuedFor(req[r1].identifier, req[r1].signed_challenge.nonce) )
        => ~(req[r1].resp = "Ok" /\ req[r2].resp = "Ok")

\* C4: a register that arrives for an identifier that already has a bound
\* device never adds its candidate key: no row of public_keys was inserted
\* by a request whose identifier had a row when the request arrived.
C4_RegisterOnBoundIdentifierBindsNothing ==
    \A row \in public_keys :
        row.id \in Requests => RowsAtArrival(row.id) = {}

\* C4 witness: a register for an identifier bound at its arrival has been
\* answered and its candidate key is not among the identifier's keys.
C4_Witness ==
    \E r \in Requests :
        /\ Answered(r, "register")
        /\ req[r].resp = "Conflict"
        /\ RowsAtArrival(r) # {}
        /\ req[r].public_key \notin BoundKeys(req[r].identifier)

\* C5: a register for an existing account to which no other request binds a
\* device, the storage calls succeeding, answers with success, and the
\* candidate key is then bound to the identifier (no confirmation step: the
\* answer is Ok, not Pending).
C5_RegisterOnUnboundAccountBindsDirectly ==
    \A r \in Requests :
        ( /\ Answered(r, "register")
          /\ req[r].identifier \in accounts
          /\ \A row \in public_keys :
                row.identifier = req[r].identifier => row.id = r
          /\ req[r].resp \notin {"InternalServerError", "panic"} )
        => /\ req[r].resp = "Ok"
           /\ [id |-> r, identifier |-> req[r].identifier,
               public_key |-> req[r].public_key] \in public_keys
           /\ BoundKeys(req[r].identifier) = {req[r].public_key}

\* C5 witness: a register on an account without a device has answered Ok.
C5_Witness ==
    \E r \in Requests :
        /\ Answered(r, "register")
        /\ req[r].resp = "Ok"
        /\ RowsAtArrival(r) = {}
        /\ BoundKeys(req[r].identifier) = {req[r].public_key}

\* C6: a register for an identifier that had a bound device when it arrived,
\* with a candidate key not yet bound, answers Pending (not a conflict or a
\* failure), the storage calls succeeding.
C6_RegisterOnBoundIdentifierIsPending ==
    \A r \in Requests :
        ( /\ Answered(r, "register")
          /\ RowsAtArrival(r) # {}
          /\ req[r].public_key \notin BoundKeys(req[r].identifier)
          /\ req[r].resp # "InternalServerError" )
        => req[r].resp = "Pending"

\* C7: while a register for an identifier that is not an account is being
\* handled, no step creates the account or stores a device key for the
\* identifier, and the register is answered NotFound (UnknownAccount), or
\* InternalServerError when the storage call fails.
C7_RegisterUnknownAccount ==
    [][\A r \in Requests :
          (req[r].op = "register" /\ req[r].identifier \notin accounts) =>
              /\ accounts' = accounts
              /\ \A row \in public_keys' : row.identifier # req[r].identifier
              /\ Completes(r, "register") =>
                    req'[r].resp \in {"NotFound", "InternalServerError"}]_vars

\* C7 witness: a register for an unknown identifier has been answered
\* NotFound.
C7_Witness ==
    \E r \in Requests :
        /\ Answered(r, "register")
        /\ req[r].identifier \notin accounts
        /\ req[r].resp = "NotFound"
        /\ BoundKeys(req[r].identifier) = {}

\* What login is to answer: NotFound (UnknownAccount) for an unknown account,
\* Conflict (409 UnboundAccount) for an account without a bound device,
\* otherwise the challenge it has stored; an answer other than Ok leaves the
\* challenge store as it was.  A failing storage call answers
\* InternalServerError or aborts the handler.
LoginContract(r) ==
    LET identifier == req[r].identifier
        failure == {"InternalServerError", "panic"}
    IN  /\ identifier \notin accounts =>
               req'[r].resp \in {"NotFound"} \cup failure
        /\ (identifier \in accounts /\ BoundKeys(identifier) = {}) =>
               req'[r].resp \in {"Conflict"} \cup failure
        /\ BoundKeys(identifier) # {} =>
               req'[r].resp \in {"Ok"} \cup failure
        /\ req'[r].resp = "Ok" =>
               /\ req'[r].challenge # NoNonce
               /\ ActiveChallenges(identifier)' =
                     {[identifier |-> identifier,
                       nonce |-> req'[r].challenge, consumed |-> FALSE,
                       expired |-> FALSE]}
        /\ req'[r].resp # "Ok" =>
               /\ challenges' = challenges
               /\ req'[r].challenge = NoNonce

\* C8: login answers UnknownAccount (404) for an unknown account,
\* the distinct UnboundAccount (409) for an account without a bound device,
\* and otherwise issues a challenge and returns its nonce; no challenge is
\* created in either error case.
C8_LoginDistinctUnboundError ==
    [][\A r \in Requests :
          Completes(r, "login") => LoginContract(r)]_vars

\* C9: every identifier has at most one active challenge, and once a login
\* for it has issued a newer challenge, an authenticate that arrives later
\* with a signature over the older nonce does not succeed.
C9_OneActiveChallengeOlderInvalidated ==
    /\ \A identifier \in Identifiers :
          Cardinality(ActiveChallenges(identifier)) <= 1
    /\ \A r, l1, l2 \in Requests :
          ( /\ Answered(r, "authenticate")
            /\ Answered(l1, "login") /\ req[l1].resp = "Ok"
            /\ Answered(l2, "login") /\ req[l2].resp = "Ok"
            /\ req[l1].identifier = req[r].identifier
            /\ req[l2].identifier = req[r].identifier
            /\ l1 \in req[l2].after /\ l2 \in req[r].after
            /\ req[r].signed_challenge.nonce = req[l1].challenge )
          => req[r].resp # "Ok"

\* C10: an authenticate whose signature verifies against none of the
\* identifier's bound device keys over the identifier's active challenge is
\* answered Unauthorized (401), the storage call succeeding.
C10_BadSignatureIsUnauthorized ==
    [][\A r \in Requests :
          ( /\ Completes(r, "authenticate")
            /\ BoundKeys(req[r].identifier) # {}
            /\ ActiveChallenges(req[r].identifier) # {}
            /\ \A c \in ActiveChallenges(req[r].identifier) :
                  \A pk \in BoundKeys(req[r].identifier) :
                      ~Verify(pk, c.nonce, req[r].signed_challenge)
            /\ req'[r].resp # "InternalServerError" )
          => req'[r].resp = "Unauthorized"]_vars

C12_ExpiredChallengeIsGone ==
    [][\A r \in Requests :
          ( /\ Completes(r, "authenticate")
            /\ \E c \in challenges :
                  /\ c.identifier = req[r].identifier
                  /\ ~c.consumed /\ c.expired
            /\ req'[r].resp # "InternalServerError" )
          => req'[r].resp = "Gone"]_vars

C14_NoDuplicateKeyPerIdentifier ==
    \A row1 \in public_keys, row2 \in public_keys :
        ( /\ row1.identifier = row2.identifier
          /\ row1.public_key = row2.public_key )
        => row1 = row2

\* C15: in every reachable state, the identifier of every row of public_keys
\* is the identifier of an existing account.
C15_DeviceKeyReferencesAccount ==
    \A row \in public_keys : row.identifier \in accounts

\* A register has inserted a row for an account, and a register for an
\* identifier that is no account has been answered without leaving a row.
C15_Witness ==
    \E r \in Requests, q \in Requests :
        /\ req[r].op = "register" /\ req[r].pc = "done"
        /\ \E row \in public_keys :
              row.id = r /\ row.identifier = req[r].identifier
        /\ req[r].identifier \in accounts
        /\ req[q].op = "register" /\ req[q].pc = "done"
        /\ req[q].identifier \notin accounts
        /\ \A row \in public_keys : row.id # q

----------------------------------------------------------------------------
\* Vocabulary of the confirmation properties.

\* Register q is one a confirmation is opened for: it has been answered
\* without a storage failure, its identifier had a bound device when it
\* arrived, and its candidate key was not among the identifier's keys then.
OpensConfirmation(q) ==
    /\ Answered(q, "register")
    /\ req[q].resp # "InternalServerError"
    /\ RowsAtArrival(q) # {}
    /\ req[q].public_key \notin {row.public_key : row \in RowsAtArrival(q)}

\* The rows that bind the candidate key of register q to its identifier.
CandidateRows(q) ==
    {row \in public_keys :
        /\ row.identifier = req[q].identifier
        /\ row.public_key = req[q].public_key}

\* Confirm request c comes from a bound device of the identifier of the
\* register it names, with a proof that verifies.
ValidApprover(c) ==
    /\ c.approverDeviceKey \in BoundKeys(req[c.requestId].identifier)
    /\ Verify(c.approverDeviceKey, c.requestId, c.proof)

\* Confirm request r arrives and is answered in this step.
ConfirmAnswered(r) == req[r].pc = "idle" /\ req'[r].op = "confirm"

\* C17: when two bound devices have approved the confirmation of the same
\* register, one approve was answered Ok and the other AlreadyTerminal, and
\* the candidate key is bound by exactly one row.
C17_ExactlyOneApproveWins ==
    \A r1 \in Requests, r2 \in Requests :
        ( /\ r1 # r2
          /\ \A r \in {r1, r2} :
                /\ Answered(r, "confirm") /\ req[r].decision = "approve"
                /\ ValidApprover(req[r])
          /\ req[r1].requestId = req[r2].requestId
          /\ OpensConfirmation(req[r1].requestId) )
        => /\ {req[r1].resp, req[r2].resp} = {"Ok", "AlreadyTerminal"}
           /\ Cardinality(CandidateRows(req[r1].requestId)) = 1

\* C18: an approve by a key that is not bound to the identifier, or with a
\* proof that does not verify, is answered Forbidden (UnauthorizedApprover)
\* and binds no key.
C18_UnauthorizedApproverIsForbidden ==
    [][\A r \in Requests :
          ( /\ ConfirmAnswered(r)
            /\ req'[r].decision = "approve"
            /\ OpensConfirmation(req'[r].requestId)
            /\ ~ValidApprover(req'[r]) )
          => /\ req'[r].resp = "Forbidden"
             /\ public_keys' = public_keys]_vars

\* C19: the first valid approve of the confirmation of a register is answered
\* Ok and binds the candidate key to the identifier, next to the keys the
\* identifier already had.
C19_FirstValidApproveBindsCandidate ==
    [][\A r \in Requests, q \in Requests :
          ( /\ ConfirmAnswered(r)
            /\ req'[r].requestId = q
            /\ req'[r].decision = "approve"
            /\ OpensConfirmation(q)
            /\ ValidApprover(req'[r])
            /\ ~\E c \in Requests :
                  Answered(c, "confirm") /\ req[c].requestId = q )
          => /\ req'[r].resp = "Ok"
             /\ Cardinality(CandidateRows(q)') = 1
             /\ public_keys \subseteq public_keys']_vars

\* C20: a reject by a bound device of the confirmation of a register is
\* answered Ok (the request is Rejected), and from then on no step binds the
\* candidate key of that register.
C20_RejectIsTerminal ==
    [][\A r \in Requests, q \in Requests :
          /\ ( /\ ConfirmAnswered(r)
               /\ req'[r].requestId = q
               /\ req'[r].decision = "reject"
               /\ OpensConfirmation(q)
               /\ ValidApprover(req'[r])
               /\ ~\E c \in Requests :
                     Answered(c, "confirm") /\ req[c].requestId = q )
             => /\ req'[r].resp = "Ok"
                /\ CandidateRows(q)' = {}
          /\ ( /\ Answered(r, "confirm")
               /\ req[r].requestId = q
               /\ req[r].decision = "reject"
               /\ req[r].resp = "Ok" )
             => CandidateRows(q)' = CandidateRows(q)]_vars

----------------------------------------------------------------------------

\* C21: a register of a public key that is already bound to the same
\* identifier succeeds (200) and leaves the identifier's set of bound keys as
\* it was; the storage calls succeeding.
C21_RebindSameKeyIsNoOpSuccess ==
    [][\A r \in Requests :
          ( /\ Completes(r, "register")
            /\ req[r].public_key \in BoundKeys(req[r].identifier)
            /\ req'[r].resp \notin {"InternalServerError", "panic"} )
          => /\ req'[r].resp = "Ok"
             /\ BoundKeys(req[r].identifier)' = BoundKeys(req[r].identifier)]_vars

\* C24: a request that ends on a failed storage call has been answered
\* InternalServerError: no handler aborts without a response.
C24_StorageFailureIsInternalError ==
    \A r \in Requests :
        (req[r].pc = "done" /\ r \in DbErrors) =>
            req[r].resp = "InternalServerError"

\* C25: of two concurrent registers with different public keys for the same
\* account, both arrived when the account had no bound device, at most one
\* has bound its key.
C25_ConcurrentRegistersBindAtMostOne ==
    \A r1 \in Requests, r2 \in Requests :
        ( /\ Concurrent(r1, r2)
          /\ req[r1].op = "register" /\ req[r2].op = "register"
          /\ req[r1].identifier = req[r2].identifier
          /\ req[r1].public_key # req[r2].public_key
          /\ RowsAtArrival(r1) = {} /\ RowsAtArrival(r2) = {} )
        => ~( /\ \E row \in public_keys : row.id = r1
              /\ \E row \in public_keys : row.id = r2 )

\* C26: authenticate consumes the active challenge before it checks the
\* signature.  An authenticate whose signature verifies against no bound key
\* leaves the identifier without an active challenge, and an authenticate that
\* follows it with a valid signature over that same challenge, no login for
\* the identifier in between, is not answered 200.
C26_ChallengeConsumedBeforeSignatureCheck ==
    [][/\ \A r \in Requests :
            ( /\ Completes(r, "authenticate")
              /\ BoundKeys(req[r].identifier) # {}
              /\ \E c \in ActiveChallenges(req[r].identifier) :
                    \A pk \in BoundKeys(req[r].identifier) :
                        ~Verify(pk, c.nonce, req[r].signed_challenge)
              /\ req'[r].resp # "InternalServerError" )
            => ActiveChallenges(req[r].identifier)' = {}
       /\ \A l \in Requests, r1 \in Requests, r2 \in Requests :
            ( /\ Answered(l, "login") /\ req[l].resp = "Ok"
              /\ Answered(r1, "authenticate")
              /\ req[r1].identifier = req[l].identifier
              /\ l \in req[r1].after
              /\ req[r1].signed_challenge.nonce # req[l].challenge
              /\ req[r1].resp # "InternalServerError"
              /\ \A q \in Requests :
                    (req[q].op = "login" /\ req[q].identifier = req[l].identifier)
                        => q = l
              /\ Completes(r2, "authenticate")
              /\ req[r2].identifier = req[l].identifier
              /\ r1 \in req[r2].after
              /\ \E row \in RowsAtArrival(r2) :
                    Verify(row.public_key, req[l].challenge,
                           req[r2].signed_challenge) )
            => req'[r2].resp # "Ok"]_vars

\* C27: the rows of public_keys only grow, and only by the row a register
\* inserts in the step that answers it 200; no step of a login or of an
\* authenticate, whatever its answer, changes public_keys, and no step removes
\* or alters a row.
C27_BoundKeysOnlyGrowByRegister ==
    [][/\ public_keys \subseteq public_keys'
       /\ public_keys' # public_keys =>
            \E r \in Requests :
                /\ Completes(r, "register") /\ req'[r].resp = "Ok"
                /\ public_keys' = public_keys \cup
                      {[id |-> r, identifier |-> req[r].identifier,
                        public_key |-> req[r].public_key]}
       /\ \A r \in Requests :
            (req'[r] # req[r] /\ req'[r].op \in {"login", "authenticate"})
                => public_keys' = public_keys]_vars

\* A register has bound a key; a login and an authenticate for the same
\* identifier were handled after it, and the identifier's rows are the one the
\* register inserted.
C27_Witness ==
    \E r \in Requests, l \in Requests, a \in Requests :
        /\ Answered(r, "register") /\ req[r].resp = "Ok"
        /\ Answered(l, "login") /\ req[l].resp = "Ok"
        /\ Answered(a, "authenticate") /\ req[a].resp = "Ok"
        /\ req[l].identifier = req[r].identifier
        /\ req[a].identifier = req[r].identifier
        /\ r \in req[l].after /\ l \in req[a].after
        /\ {row \in public_keys : row.identifier = req[r].identifier} =
              {[id |-> r, identifier |-> req[r].identifier,
                public_key |-> req[r].public_key]}

\* C28: no step of a register or of a login changes accounts, public_keys or
\* the challenge store, except the step that answers the call 200 and a step
\* that ends it on a storage failure: a call answered with another error
\* (NotFound, Conflict) has left the three as they were.
C28_ErrorLeavesStateUnchanged ==
    [][\A r \in Requests :
          ( /\ req'[r] # req[r]
            /\ req'[r].op \in {"register", "login"}
            /\ ~( /\ req'[r].pc = "done"
                  /\ req'[r].resp \in {"Ok", "InternalServerError", "panic"} ) )
          => UNCHANGED <<accounts, public_keys, challenges>>]_vars

\* A register has been answered Conflict and a login NotFound, and the tables
\* and the challenge store are as they were at the start.
C28_Witness ==
    \E r \in Requests, l \in Requests :
        /\ Answered(r, "register") /\ req[r].resp = "Conflict"
        /\ Answered(l, "login") /\ req[l].resp = "NotFound"
        /\ \A row \in public_keys : row.id = 0
        /\ challenges = {}

\* C22: once the timeout of the confirmation of a register has passed with
\* no device having answered it, an approve or a reject of it is answered Gone
\* (Expired), and no approve binds the candidate key.
C22_TimedOutConfirmationIsExpired ==
    [][\A r \in Requests, q \in Requests :
          ( /\ ConfirmAnswered(r)
            /\ req'[r].requestId = q
            /\ OpensConfirmation(q)
            /\ req[q].timedOut
            /\ ~\E c \in Requests :
                  Answered(c, "confirm") /\ req[c].requestId = q )
          => /\ req'[r].resp = "Gone"
             /\ CandidateRows(q)' = CandidateRows(q)]_vars

\* C29: a register that opens a confirmation has sent a message to every
\* device key the identifier had when it arrived, and is answered Pending.
C29_RegisterNotifiesEveryBoundDevice ==
    \A r \in Requests :
        OpensConfirmation(r) =>
            /\ {row.public_key : row \in RowsAtArrival(r)} \subseteq req[r].notified
            /\ req[r].resp = "Pending"

=============================================================================
